---------------------------- MODULE Spec2Model ----------------------------
(***************************************************************************)
(* A model of shell.c: the read-eval loop of main, the built-ins, the      *)
(* child-side excute/resolve, the parent-side job control and the SIGINT   *)
(* relay handler.  Every process that still runs the shell's image (the    *)
(* shell itself, and a forked child until execv succeeds) executes the     *)
(* same code over its own copy of the globals and locals.                  *)
(***************************************************************************)
EXTENDS Integers, Sequences, FiniteSets, TLC

(***************************************************************************)
(* Bounds of the model.                                                    *)
(***************************************************************************)
\* pids 1..MaxProcs exist (a pid is free again once its process has been
\* waited for); fork fails with EAGAIN when none is free
MaxProcs == 2
\* fgets delivers at most this many lines in total before end of input
MaxLines == 3

(***************************************************************************)
(* Identities.                                                             *)
(***************************************************************************)
Pids == 1..MaxProcs
Shell == 1
\* the parent of the shell, and of every orphan (it reaps at once)
InitPid == 0
\* the process group the shell is started in when it is not a group leader
LauncherPgid == MaxProcs + 1
\* a process group other than the shell's that may own the terminal
OtherPgid == MaxProcs + 2

\* a null pointer: a value no string (sequence of characters) equals
NULL == <<"NULL">>
\* the outcome of a memory fault (SIGSEGV / abort) in place of a value
FAULT == <<"FAULT">>

(***************************************************************************)
(* Strings are sequences of one-character strings, so that *s, strchr and  *)
(* strcat are computed on characters.                                      *)
(***************************************************************************)
T_help == <<"?">>
T_exit == <<"e", "x", "i", "t">>
T_cd == <<"c", "d">>
T_pwd == <<"p", "w", "d">>
T_wait == <<"w", "a", "i", "t">>
T_ls == <<"l", "s">>
T_nx == <<"n", "x">>
T_amp == <<"&">>
T_gt == <<">">>
T_lt == <<"<">>
T_f == <<"f">>
T_gtf == <<">", "f">>

\* cmd_table[i].cmd, in table order
cmd_table == <<T_help, T_exit, T_cd, T_pwd, T_wait>>

\* the lines the tokenizer can hand to main; <<>> is a blank line
Lines ==
  { <<>>, <<T_exit>>, <<T_wait>>, <<T_pwd>>,
    <<T_ls>>, <<T_ls, T_amp>>,
    <<T_ls, T_gt, T_f>>, <<T_ls, T_lt>>, <<T_nx, T_gtf>> }

\* the value of PATH and the files that exist during a session
EnvPath == <<"/", "a", ":", "/", "b">>
ExistingFiles == { <<"/", "b", "/", "l", "s">> }
\* the files that are programs: execv succeeds on them when they exist
ExecutableFiles == { <<"/", "a", "/", "l", "s">>, <<"/", "b", "/", "l", "s">> }

(***************************************************************************)
(* tokenizer.h                                                             *)
(***************************************************************************)
tokens_get_length(tokens) == Len(tokens)

\* n is 0-based; out of range yields a null pointer
tokens_get_token(tokens, n) ==
  IF n >= 0 /\ n < Len(tokens) THEN tokens[n + 1] ELSE NULL

(***************************************************************************)
(* Pure helpers of shell.c                                                 *)
(***************************************************************************)
\* *s for a non-null string s: its first character, "\0" for ""
FirstChar(s) == IF Len(s) = 0 THEN "\\0" ELSE s[1]

\* strchr(s, c) != NULL
HasChar(s, c) == \E k \in 1..Len(s) : s[k] = c

\* lookup: index into cmd_table (0-based), -1 when cmd is NULL or no entry
lookup(cmd) ==
  IF cmd # NULL /\ \E k \in 1..Len(cmd_table) : cmd_table[k] = cmd
  THEN (CHOOSE k \in 1..Len(cmd_table) :
          /\ cmd_table[k] = cmd
          /\ \A m \in 1..(k - 1) : cmd_table[m] # cmd) - 1
  ELSE -1

\* strtok(path, ":") repeated to exhaustion: the non-empty segments in order
RECURSIVE StrTokFrom(_, _, _)
StrTokFrom(s, k, cur) ==
  IF k > Len(s)
  THEN (IF cur = <<>> THEN <<>> ELSE <<cur>>)
  ELSE IF s[k] = ":"
       THEN (IF cur = <<>> THEN <<>> ELSE <<cur>>) \o StrTokFrom(s, k + 1, <<>>)
       ELSE StrTokFrom(s, k + 1, Append(cur, s[k]))

StrTok(s) == StrTokFrom(s, 1, <<>>)

\* access(path, F_OK) == 0
access(path, files) == path \in files

\* the loop of resolve over the segments from the k-th on
RECURSIVE ResolveFrom(_, _, _, _)
ResolveFrom(segs, k, name, files) ==
  IF k > Len(segs) THEN NULL
  ELSE IF access(segs[k] \o <<"/">> \o name, files)
       THEN segs[k] \o <<"/">> \o name
       ELSE ResolveFrom(segs, k + 1, name, files)

\* resolve(name) for a given value of PATH (NULL when unset): the path
\* found, NULL, or FAULT when strlen is applied to a null pointer
resolve(name, path, files) ==
  IF path = NULL THEN FAULT
  ELSE IF StrTok(path) = <<>> THEN FAULT
  ELSE ResolveFrom(StrTok(path), 1, name, files)

\* resolve writes strlen(seg) + 1 + strlen(name) + 1 bytes into a buffer of
\* strlen(seg) + 1 bytes for every candidate it builds
ResolveOverflows(name, path) ==
  /\ path # NULL
  /\ StrTok(path) # <<>>
  /\ Len(StrTok(path)[1]) + 1 + Len(name) + 1 > Len(StrTok(path)[1]) + 1

\* what a call of resolve can produce
ResolveOutcomes(name, path, files) ==
  {resolve(name, path, files)}
    \cup (IF ResolveOverflows(name, path) THEN {FAULT} ELSE {})

\* execv(path, argv) replaces the image iff path names a file that exists
\* and is executable
ExecvSucceeds(path, fs) == path # NULL /\ path \in fs /\ path \in ExecutableFiles

(***************************************************************************)
(* State.  Functions over Pids hold one value per process: fork copies     *)
(* the parent's values into the child.                                     *)
(***************************************************************************)
VARIABLES
  st,            \* "unused", "live", "zombie" (terminated, not waited for), "gone"
  image,         \* "shell": still runs shell.c, "prog": execv has succeeded
  pc,            \* position in shell.c
  parent,        \* parent pid, InitPid for the shell and for orphans
  pgid,          \* process group of the process
  status,        \* "none", "exit0", "exit1", "sigint", "fault": how it terminated
  fg,            \* the process was forked with background == 0
  tokens,        \* main: tokens of the current line
  background,    \* main: local background
  pid,           \* main: local pid, the result of fork
  child_pid,     \* global child_pid
  reported,      \* main has printed its error message for the current line
  sigint,        \* disposition of SIGINT: "default" or "handler"
  sa_restart,    \* SA_RESTART bit of the installed act.sa_flags
  sigttou,       \* disposition of SIGTTOU: "default" or "ignore"
  pending,       \* a SIGINT has been sent to the process and not yet delivered
  i,             \* excute: loop index i
  argv,          \* excute: argv[0..j-1]
  redirs,        \* excute: the open/dup2 pairs performed so far
  fd0,           \* what descriptor 0 refers to: "tty" or a file name
  fd1,           \* what descriptor 1 refers to
  shell_is_interactive,
  shell_pgid,
  ttyFg,         \* tcgetpgrp(shell_terminal)
  linesRead,     \* number of lines fgets has delivered so far
  envPath,       \* getenv("PATH"), NULL when the variable is not set
  files          \* the files that exist

procVars == <<st, image, pc, parent, pgid, status, fg>>
procVars_but_pc == <<st, image, parent, pgid, status, fg>>
mainVars == <<tokens, background, pid, child_pid, reported>>
sigVars == <<sigint, sa_restart, sigttou, pending>>
excVars == <<i, argv, redirs, fd0, fd1>>
sessVars == <<shell_is_interactive, shell_pgid, ttyFg>>
envVars == <<envPath, files>>
vars == <<procVars, mainVars, sigVars, excVars, sessVars, linesRead, envVars>>

Live(p) == st[p] = "live"
RunsShell(p) == Live(p) /\ image[p] = "shell"
\* p executes its next statement: a signal that is pending is delivered first
Runs(p) == RunsShell(p) /\ ~pending[p]
Children(p) == {c \in Pids : parent[c] = p /\ st[c] \in {"live", "zombie"}}
Zombies(p) == {c \in Children(p) : st[c] = "zombie"}

\* the pid fork hands out next
NextPid == CHOOSE c \in Pids : st[c] = "unused" /\ \A d \in Pids : st[d] = "unused" => c <= d

TTY == <<"tty">>

(***************************************************************************)
(* Init: the process image of the shell at entry to main.  An interactive  *)
(* shell may or may not lead its process group, and may or may not be in   *)
(* the terminal's foreground group.                                        *)
(***************************************************************************)
Init ==
  /\ shell_is_interactive \in BOOLEAN
  /\ pgid \in {[p \in Pids |-> IF p = Shell THEN g ELSE 0] :
                 g \in IF shell_is_interactive THEN {Shell, LauncherPgid} ELSE {LauncherPgid}}
  /\ ttyFg \in IF shell_is_interactive THEN {pgid[Shell], OtherPgid} ELSE {OtherPgid}
  /\ shell_pgid = 0
  /\ st = [p \in Pids |-> IF p = Shell THEN "live" ELSE "unused"]
  /\ image = [p \in Pids |-> "shell"]
  /\ pc = [p \in Pids |-> IF p = Shell THEN "init_shell" ELSE "none"]
  /\ parent = [p \in Pids |-> InitPid]
  /\ status = [p \in Pids |-> "none"]
  /\ fg = [p \in Pids |-> FALSE]
  /\ tokens = [p \in Pids |-> <<>>]
  /\ background = [p \in Pids |-> 0]
  /\ pid = [p \in Pids |-> 0]
  /\ child_pid = [p \in Pids |-> 0]
  /\ reported = [p \in Pids |-> FALSE]
  /\ sigint = [p \in Pids |-> "default"]
  /\ sa_restart = [p \in Pids |-> FALSE]
  /\ sigttou = [p \in Pids |-> "default"]
  /\ pending = [p \in Pids |-> FALSE]
  /\ i = [p \in Pids |-> 0]
  /\ argv = [p \in Pids |-> <<>>]
  /\ redirs = [p \in Pids |-> <<>>]
  /\ fd0 = [p \in Pids |-> TTY]
  /\ fd1 = [p \in Pids |-> TTY]
  /\ linesRead = 0
  /\ envPath = EnvPath
  /\ files = ExistingFiles

(***************************************************************************)
(* Process termination and collection (the kernel's side of exit, of a     *)
(* fatal signal and of wait).                                              *)
(***************************************************************************)
\* the processes that are collected when their set cs of pids is waited
\* for: the pids are free again
Collect(cs) ==
  /\ image' = [q \in Pids |-> IF q \in cs THEN "shell" ELSE image[q]]
  /\ pgid' = [q \in Pids |-> IF q \in cs THEN 0 ELSE pgid[q]]
  /\ status' = [q \in Pids |-> IF q \in cs THEN "none" ELSE status[q]]
  /\ fg' = [q \in Pids |-> IF q \in cs THEN FALSE ELSE fg[q]]

\* wait/waitpid in p collects its terminated child c
Reap(c) ==
  /\ st' = [st EXCEPT ![c] = "unused"]
  /\ pc' = [pc EXCEPT ![c] = "none"]
  /\ parent' = [parent EXCEPT ![c] = InitPid]
  /\ Collect({c})

\* process p terminates with its program counter left at newpc and the
\* signals pend outstanding.  Its memory, descriptors and signal state are
\* released.  It stays a zombie until its parent waits for it; init collects
\* at once the orphans it inherits, and the launcher collects the shell.
Terminate(p, how, newpc, pend) ==
  LET orphans == {q \in Pids : parent[q] = p /\ st[q] = "zombie"}
      collected == orphans \cup (IF parent[p] = InitPid /\ p # Shell THEN {p} ELSE {})
  IN
  /\ st' = [q \in Pids |->
              IF q \in collected THEN "unused"
              ELSE IF q = p THEN (IF p = Shell THEN "gone" ELSE "zombie")
              ELSE st[q]]
  /\ pc' = [q \in Pids |->
              IF q \in collected THEN "none" ELSE IF q = p THEN newpc ELSE pc[q]]
  /\ parent' = [q \in Pids |-> IF parent[q] = p \/ q \in collected THEN InitPid ELSE parent[q]]
  /\ image' = [q \in Pids |-> IF q \in collected THEN "shell" ELSE image[q]]
  /\ pgid' = [q \in Pids |-> IF q \in collected THEN 0 ELSE pgid[q]]
  /\ status' = [q \in Pids |->
                  IF q \in collected THEN "none" ELSE IF q = p THEN how ELSE status[q]]
  /\ fg' = [q \in Pids |-> IF q \in collected THEN FALSE ELSE fg[q]]
  /\ tokens' = [tokens EXCEPT ![p] = <<>>]
  /\ background' = [background EXCEPT ![p] = 0]
  /\ pid' = [pid EXCEPT ![p] = 0]
  /\ child_pid' = [child_pid EXCEPT ![p] = 0]
  /\ reported' = [reported EXCEPT ![p] = FALSE]
  /\ sigint' = [sigint EXCEPT ![p] = "default"]
  /\ sa_restart' = [sa_restart EXCEPT ![p] = FALSE]
  /\ sigttou' = [sigttou EXCEPT ![p] = "default"]
  /\ pending' = [pend EXCEPT ![p] = FALSE]
  /\ i' = [i EXCEPT ![p] = 0]
  /\ argv' = [argv EXCEPT ![p] = <<>>]
  /\ redirs' = [redirs EXCEPT ![p] = <<>>]
  /\ fd0' = [fd0 EXCEPT ![p] = TTY]
  /\ fd1' = [fd1 EXCEPT ![p] = TTY]

(***************************************************************************)
(* init_shell                                                              *)
(***************************************************************************)
\* the loop body: the shell is not in the foreground group, so it sends
\* SIGTTIN to its own group and is stopped
InitShellStop(p) ==
  /\ Runs(p) /\ pc[p] = "init_shell"
  /\ shell_is_interactive
  /\ ttyFg # pgid[p]
  /\ shell_pgid' = pgid[p]
  /\ pc' = [pc EXCEPT ![p] = "init_stopped"]
  /\ UNCHANGED <<procVars_but_pc, mainVars, sigVars, excVars,
                 shell_is_interactive, ttyFg, linesRead, envVars>>

\* the launcher moves the shell's group to the foreground and continues it
Foreground(p) ==
  /\ RunsShell(p) /\ pc[p] = "init_stopped"
  /\ ttyFg' = pgid[p]
  /\ pc' = [pc EXCEPT ![p] = "init_shell"]
  /\ UNCHANGED <<procVars_but_pc, mainVars, sigVars, excVars,
                 shell_is_interactive, shell_pgid, linesRead, envVars>>

\* the loop is left; shell_pgid = getpid(); tcsetpgrp(shell_terminal, shell_pgid),
\* which fails when no process group has that id
init_shell(p) ==
  /\ Runs(p) /\ pc[p] = "init_shell"
  /\ \/ /\ ~shell_is_interactive
        /\ UNCHANGED <<shell_pgid, ttyFg>>
     \/ /\ shell_is_interactive
        /\ ttyFg = pgid[p]
        /\ shell_pgid' = p
        /\ ttyFg' = IF \E q \in Pids : Live(q) /\ pgid[q] = p THEN p ELSE ttyFg
  /\ pc' = [pc EXCEPT ![p] = "read"]
  /\ UNCHANGED <<procVars_but_pc, mainVars, sigVars, excVars,
                 shell_is_interactive, linesRead, envVars>>

(***************************************************************************)
(* main: the read-eval loop                                                *)
(***************************************************************************)
\* fgets returns a line; tokenize
ReadLine(p) ==
  /\ Runs(p) /\ pc[p] = "read"
  /\ linesRead < MaxLines
  /\ \E l \in Lines : tokens' = [tokens EXCEPT ![p] = l]
  /\ linesRead' = linesRead + 1
  /\ pc' = [pc EXCEPT ![p] = "dispatch"]
  /\ UNCHANGED <<procVars_but_pc, background, pid, child_pid, reported, sigVars,
                 excVars, sessVars, envVars>>

\* fgets returns NULL at end of input; main returns 0
ReadEOF(p) ==
  /\ Runs(p) /\ pc[p] = "read"
  /\ Terminate(p, "exit0", "done", pending)
  /\ UNCHANGED <<sessVars, linesRead, envVars>>

fundex(p) == lookup(tokens_get_token(tokens[p], 0))

\* cmd_help, cmd_cd, cmd_pwd: no effect on the modelled state
cmd_simple(p) ==
  /\ Runs(p) /\ pc[p] = "dispatch"
  /\ fundex(p) \in {0, 2, 3}
  /\ pc' = [pc EXCEPT ![p] = "prompt"]
  /\ UNCHANGED <<procVars_but_pc, mainVars, sigVars, excVars, sessVars, linesRead, envVars>>

cmd_exit(p) ==
  /\ Runs(p) /\ pc[p] = "dispatch"
  /\ fundex(p) = 1
  /\ Terminate(p, "exit0", "done", pending)
  /\ UNCHANGED <<sessVars, linesRead, envVars>>

\* entry to cmd_wait
cmd_wait(p) ==
  /\ Runs(p) /\ pc[p] = "dispatch"
  /\ fundex(p) = 4
  /\ pc' = [pc EXCEPT ![p] = "cmd_wait"]
  /\ UNCHANGED <<procVars_but_pc, mainVars, sigVars, excVars, sessVars, linesRead, envVars>>

\* wait() returns the pid of a terminated child: the loop goes round
cmd_wait_reap(p) ==
  /\ Runs(p) /\ pc[p] = "cmd_wait"
  /\ \E c \in Zombies(p) : Reap(c)
  /\ UNCHANGED <<mainVars, sigVars, excVars, sessVars, linesRead, envVars>>

\* wait() returns -1 with ECHILD: break, return
cmd_wait_return(p) ==
  /\ Runs(p) /\ pc[p] = "cmd_wait"
  /\ Children(p) = {}
  /\ pc' = [pc EXCEPT ![p] = "prompt"]
  /\ UNCHANGED <<procVars_but_pc, mainVars, sigVars, excVars, sessVars, linesRead, envVars>>

\* a blank line is no built-in, and *tokens_get_token(tokens, -1) reads
\* through a null pointer
dispatch_fault(p) ==
  /\ Runs(p) /\ pc[p] = "dispatch"
  /\ fundex(p) = -1
  /\ tokens_get_token(tokens[p], tokens_get_length(tokens[p]) - 1) = NULL
  /\ Terminate(p, "fault", pc[p], pending)
  /\ UNCHANGED <<sessVars, linesRead, envVars>>

\* a main that runs every command in the foreground
Background_never(toks) == 0

\* background = 1 iff the last token starts with '&'
Background(toks) ==
  IF FirstChar(tokens_get_token(toks, tokens_get_length(toks) - 1)) = "&" THEN 1 ELSE 0

\* fork succeeds: the child is a copy of the parent that sees pid == 0
ForkChild(p) ==
  /\ Runs(p) /\ pc[p] = "dispatch"
  /\ fundex(p) = -1
  /\ tokens_get_token(tokens[p], tokens_get_length(tokens[p]) - 1) # NULL
  /\ \E u \in Pids : st[u] = "unused"
  /\ LET c == NextPid
         b == Background(tokens[p])
     IN /\ st' = [st EXCEPT ![c] = "live"]
        /\ parent' = [parent EXCEPT ![c] = p]
        /\ pgid' = [pgid EXCEPT ![c] = pgid[p]]
        /\ pc' = [pc EXCEPT ![c] = "excute_loop",
                            ![p] = IF b = 0 THEN "setpgid" ELSE "prompt"]
        /\ tokens' = [tokens EXCEPT ![c] = tokens[p]]
        /\ background' = [background EXCEPT ![c] = b, ![p] = b]
        /\ pid' = [pid EXCEPT ![c] = 0, ![p] = c]
        /\ child_pid' = [child_pid EXCEPT ![c] = child_pid[p]]
        /\ reported' = [reported EXCEPT ![c] = reported[p]]
        /\ sigint' = [sigint EXCEPT ![c] = sigint[p]]
        /\ sa_restart' = [sa_restart EXCEPT ![c] = sa_restart[p]]
        /\ sigttou' = [sigttou EXCEPT ![c] = sigttou[p]]
        /\ pending' = [pending EXCEPT ![c] = FALSE]
        /\ i' = [i EXCEPT ![c] = 0]
        /\ argv' = [argv EXCEPT ![c] = <<>>]
        /\ redirs' = [redirs EXCEPT ![c] = <<>>]
        /\ fd0' = [fd0 EXCEPT ![c] = fd0[p]]
        /\ fd1' = [fd1 EXCEPT ![c] = fd1[p]]
        /\ fg' = [fg EXCEPT ![c] = (b = 0)]
  /\ UNCHANGED <<image, status, sessVars, linesRead, envVars>>

\* fork returns -1: neither branch is taken
ForkFails(p) ==
  /\ Runs(p) /\ pc[p] = "dispatch"
  /\ fundex(p) = -1
  /\ tokens_get_token(tokens[p], tokens_get_length(tokens[p]) - 1) # NULL
  /\ background' = [background EXCEPT ![p] = Background(tokens[p])]
  /\ pid' = [pid EXCEPT ![p] = -1]
  /\ pc' = [pc EXCEPT ![p] = "prompt"]
  /\ UNCHANGED <<procVars_but_pc, tokens, child_pid, reported, sigVars, excVars,
                 sessVars, linesRead, envVars>>

\* setpgid(pid, pid): EACCES once the child has performed an execv, ESRCH
\* when it is no longer there
setpgid(p) ==
  /\ Runs(p) /\ pc[p] = "setpgid"
  /\ pgid' = IF pid[p] \in Children(p) /\ RunsShell(pid[p])
             THEN [pgid EXCEPT ![pid[p]] = pid[p]]
             ELSE pgid
  /\ pc' = [pc EXCEPT ![p] = "set_child_pid"]
  /\ UNCHANGED <<st, image, parent, status, fg, mainVars, sigVars, excVars,
                 sessVars, linesRead, envVars>>

\* child_pid = pid; act.sa_handler = handler; signal(SIGTTOU, SIG_IGN)
set_child_pid(p) ==
  /\ Runs(p) /\ pc[p] = "set_child_pid"
  /\ child_pid' = [child_pid EXCEPT ![p] = pid[p]]
  /\ sigttou' = [sigttou EXCEPT ![p] = "ignore"]
  /\ pc' = [pc EXCEPT ![p] = "sigaction"]
  /\ UNCHANGED <<procVars_but_pc, tokens, background, pid, reported, sigint,
                 sa_restart, pending, excVars, sessVars, linesRead, envVars>>

\* sigaction(SIGINT, &act, NULL): only act.sa_handler was assigned, so the
\* flags installed are whatever the stack held
sigaction(p) ==
  /\ Runs(p) /\ pc[p] = "sigaction"
  /\ sigint' = [sigint EXCEPT ![p] = "handler"]
  /\ \E r \in BOOLEAN : sa_restart' = [sa_restart EXCEPT ![p] = r]
  /\ pc' = [pc EXCEPT ![p] = "waitpid"]
  /\ UNCHANGED <<procVars_but_pc, mainVars, sigttou, pending, excVars,
                 sessVars, linesRead, envVars>>

\* waitpid(pid, &status, 0) returns the pid: the child has terminated and
\* is collected
waitpid_reap(p) ==
  /\ Runs(p) /\ pc[p] = "waitpid"
  /\ pid[p] \in Zombies(p)
  /\ LET c == pid[p]
     IN /\ st' = [st EXCEPT ![c] = "unused"]
        /\ pc' = [pc EXCEPT ![c] = "none", ![p] = "prompt"]
        /\ parent' = [parent EXCEPT ![c] = InitPid]
        /\ Collect({c})
  /\ UNCHANGED <<mainVars, sigVars, excVars, sessVars, linesRead, envVars>>

\* the end of the loop body: the prompt is printed, the tokens are
\* destroyed and the locals of the iteration go out of scope
prompt(p) ==
  /\ Runs(p) /\ pc[p] = "prompt"
  /\ tokens' = [tokens EXCEPT ![p] = <<>>]
  /\ background' = [background EXCEPT ![p] = 0]
  /\ pid' = [pid EXCEPT ![p] = 0]
  /\ reported' = [reported EXCEPT ![p] = FALSE]
  /\ pc' = [pc EXCEPT ![p] = "read"]
  /\ UNCHANGED <<procVars_but_pc, child_pid, sigVars, excVars, sessVars, linesRead, envVars>>

(***************************************************************************)
(* excute, run by the forked child                                         *)
(***************************************************************************)
CurTok(p) == tokens_get_token(tokens[p], i[p])
NextTok(p) == tokens_get_token(tokens[p], i[p] + 1)
InLoop(p) ==
  Runs(p) /\ pc[p] = "excute_loop" /\ i[p] < tokens_get_length(tokens[p])
AfterLoop(p) ==
  Runs(p) /\ pc[p] = "excute_loop" /\ i[p] >= tokens_get_length(tokens[p])

\* an excute that drops a & token instead of copying it into argv
excute_arg_strip(p) ==
  /\ InLoop(p)
  /\ FirstChar(CurTok(p)) # ">" /\ FirstChar(CurTok(p)) # "<"
  /\ argv' = [argv EXCEPT ![p] = IF CurTok(p) = T_amp THEN @ ELSE Append(@, CurTok(p))]
  /\ i' = [i EXCEPT ![p] = @ + 1]
  /\ UNCHANGED <<procVars, mainVars, sigVars, redirs, fd0, fd1, sessVars, linesRead, envVars>>

\* the token starts with neither '>' nor '<': argv[j] = token; j += 1
excute_arg(p) ==
  /\ InLoop(p)
  /\ FirstChar(CurTok(p)) # ">" /\ FirstChar(CurTok(p)) # "<"
  /\ argv' = [argv EXCEPT ![p] = Append(@, CurTok(p))]
  /\ i' = [i EXCEPT ![p] = @ + 1]
  /\ UNCHANGED <<procVars, mainVars, sigVars, redirs, fd0, fd1, sessVars, linesRead, envVars>>

\* open(file, ...) can succeed only for a non-null file name
OpenResults(file) == IF file = NULL THEN {FALSE} ELSE BOOLEAN

\* the token starts with '<': open the next token, dup2 onto 0; i += 1.
\* dup2(-1, 0) fails and leaves descriptor 0 alone
excute_in(p) ==
  /\ InLoop(p)
  /\ FirstChar(CurTok(p)) = "<"
  /\ \E ok \in OpenResults(NextTok(p)) :
       /\ redirs' = [redirs EXCEPT ![p] = Append(@, [fd |-> 0, file |-> NextTok(p), ok |-> ok])]
       /\ fd0' = [fd0 EXCEPT ![p] = IF ok THEN NextTok(p) ELSE @]
  /\ i' = [i EXCEPT ![p] = @ + 2]
  /\ UNCHANGED <<procVars, mainVars, sigVars, argv, fd1, sessVars, linesRead, envVars>>

\* the token starts with '>': open the next token, dup2 onto 1; i += 1
excute_out(p) ==
  /\ InLoop(p)
  /\ FirstChar(CurTok(p)) = ">"
  /\ \E ok \in OpenResults(NextTok(p)) :
       /\ redirs' = [redirs EXCEPT ![p] = Append(@, [fd |-> 1, file |-> NextTok(p), ok |-> ok])]
       /\ fd1' = [fd1 EXCEPT ![p] = IF ok THEN NextTok(p) ELSE @]
  /\ i' = [i EXCEPT ![p] = @ + 2]
  /\ UNCHANGED <<procVars, mainVars, sigVars, argv, fd0, sessVars, linesRead, envVars>>

\* argv[j] = NULL lies outside the length-element array when j == length
ArgvOverflows(p) == Len(argv[p]) >= tokens_get_length(tokens[p])

\* argv[0] as excute reads it after the loop
Argv0(p) == IF Len(argv[p]) = 0 THEN NULL ELSE argv[p][1]

\* the values argv[0] can have when execv is called: itself when it holds
\* a '/', what resolve returns otherwise; FAULT when there is no call
ExecPaths(p) ==
  IF Argv0(p) = NULL THEN {FAULT}
  ELSE (IF HasChar(Argv0(p), "/")
        THEN {Argv0(p)}
        ELSE ResolveOutcomes(Argv0(p), envPath, files))
       \cup (IF ArgvOverflows(p) THEN {FAULT} ELSE {})

\* after the loop the child faults: in strchr(NULL, '/'), inside resolve,
\* or on the heap that the writes past argv and path_seg2 have damaged
excute_fault(p) ==
  /\ AfterLoop(p)
  /\ FAULT \in ExecPaths(p)
  /\ Terminate(p, "fault", "done", pending)
  /\ UNCHANGED <<sessVars, linesRead, envVars>>

\* argv[j] = NULL; argv[0] resolved; execv(argv[0], argv) succeeds: the
\* image is replaced, the caught signal returns to its default disposition
execv_ok(p) ==
  /\ AfterLoop(p)
  /\ \E path \in ExecPaths(p) \ {FAULT} :
       /\ ExecvSucceeds(path, files)
       /\ argv' = [argv EXCEPT ![p][1] = path]
  /\ image' = [image EXCEPT ![p] = "prog"]
  /\ pc' = [pc EXCEPT ![p] = "running"]
  /\ sigint' = [sigint EXCEPT ![p] = "default"]
  /\ sa_restart' = [sa_restart EXCEPT ![p] = FALSE]
  /\ tokens' = [tokens EXCEPT ![p] = <<>>]
  /\ background' = [background EXCEPT ![p] = 0]
  /\ child_pid' = [child_pid EXCEPT ![p] = 0]
  /\ i' = [i EXCEPT ![p] = 0]
  /\ UNCHANGED <<st, parent, pgid, status, fg, pid, reported, sigttou, pending, redirs,
                 fd0, fd1, sessVars, linesRead, envVars>>

\* argv[j] = NULL; argv[0] resolved; execv returns -1: free(argv), excute
\* returns -1, main prints "This shell doesn't know how to run programs."
\* and goes on to the end of the loop body
execv_fails(p) ==
  /\ AfterLoop(p)
  /\ \E path \in ExecPaths(p) \ {FAULT} : ~ExecvSucceeds(path, files)
  /\ pc' = [pc EXCEPT ![p] = "prompt"]
  /\ i' = [i EXCEPT ![p] = 0]
  /\ argv' = [argv EXCEPT ![p] = <<>>]
  /\ redirs' = [redirs EXCEPT ![p] = <<>>]
  /\ reported' = [reported EXCEPT ![p] = TRUE]
  /\ UNCHANGED <<procVars_but_pc, tokens, background, pid, child_pid, sigVars, fd0, fd1,
                 sessVars, linesRead, envVars>>

\* the program that was run terminates by itself
ProgExit(p) ==
  /\ Live(p) /\ image[p] = "prog" /\ ~pending[p]
  /\ \E how \in {"exit0", "exit1"} : Terminate(p, how, "done", pending)
  /\ UNCHANGED <<sessVars, linesRead, envVars>>

(***************************************************************************)
(* SIGINT                                                                  *)
(***************************************************************************)
\* somebody (the terminal driver, kill -INT) sends SIGINT to the shell
SendSigint(p) ==
  /\ p = Shell /\ Live(p) /\ ~pending[p]
  /\ pending' = [pending EXCEPT ![p] = TRUE]
  /\ UNCHANGED <<procVars, mainVars, sigint, sa_restart, sigttou,
                 excVars, sessVars, linesRead, envVars>>

\* the processes kill(target, SIGINT) called by p reaches
KillTargets(p, target) ==
  IF target = 0
  THEN {q \in Pids : Live(q) /\ pgid[q] = pgid[p]}
  ELSE {q \in Pids : q = target /\ Live(q)}

\* p is (or may be) blocked in a system call that a caught signal interrupts
Blocked(p) ==
  \/ pc[p] = "read"
  \/ pc[p] = "waitpid" /\ pid[p] \in Children(p) \ Zombies(p)
  \/ pc[p] = "cmd_wait" /\ Children(p) # {} /\ Zombies(p) = {}

\* handler(signum): kill(child_pid, SIGINT); the result is the set of
\* signals outstanding once p's own has been taken
handler(p) ==
  [q \in Pids |->
     IF q \in KillTargets(p, child_pid[p]) THEN TRUE
     ELSE IF q = p THEN FALSE ELSE pending[q]]

\* SIGINT is delivered to a process with the default disposition
DeliverDefault(p) ==
  /\ RunsShell(p) /\ pending[p] /\ pc[p] # "init_stopped"
  /\ sigint[p] = "default"
  /\ Terminate(p, "sigint", pc[p], pending)
  /\ UNCHANGED <<sessVars, linesRead, envVars>>

\* SIGINT is delivered to a process that has the handler installed, and
\* the process carries on where it was (a blocking call is restarted)
DeliverHandler(p) ==
  /\ RunsShell(p) /\ pending[p]
  /\ sigint[p] = "handler"
  /\ pending' = handler(p)
  /\ UNCHANGED <<procVars, mainVars, sigint, sa_restart, sigttou, excVars,
                 sessVars, linesRead, envVars>>

\* the same, but waitpid or wait was blocked and fails with EINTR
DeliverHandlerEintrWait(p) ==
  /\ RunsShell(p) /\ pending[p]
  /\ sigint[p] = "handler"
  /\ Blocked(p) /\ ~sa_restart[p]
  /\ pc[p] \in {"waitpid", "cmd_wait"}
  /\ pending' = handler(p)
  /\ pc' = [pc EXCEPT ![p] = "prompt"]
  /\ UNCHANGED <<procVars_but_pc, mainVars, sigint, sa_restart, sigttou, excVars,
                 sessVars, linesRead, envVars>>

\* the same, but the read under fgets was blocked and fails with EINTR:
\* fgets returns NULL and main returns 0
DeliverHandlerEintrRead(p) ==
  /\ RunsShell(p) /\ pending[p]
  /\ sigint[p] = "handler"
  /\ Blocked(p) /\ ~sa_restart[p]
  /\ pc[p] = "read"
  /\ Terminate(p, "exit0", "done", handler(p))
  /\ UNCHANGED <<sessVars, linesRead, envVars>>

\* SIGINT is delivered to a program that was run and kills it
DeliverProgDies(p) ==
  /\ Live(p) /\ image[p] = "prog" /\ pending[p]
  /\ Terminate(p, "sigint", "done", pending)
  /\ UNCHANGED <<sessVars, linesRead, envVars>>

\* SIGINT is delivered to a program that catches or ignores it
DeliverProgSurvives(p) ==
  /\ Live(p) /\ image[p] = "prog" /\ pending[p]
  /\ pending' = [pending EXCEPT ![p] = FALSE]
  /\ UNCHANGED <<procVars, mainVars, sigint, sa_restart, sigttou, excVars,
                 sessVars, linesRead, envVars>>

(***************************************************************************)
(* The specification                                                       *)
(***************************************************************************)
\* process p executes its next statement (or is continued by the launcher)
Run(p) ==
  \/ InitShellStop(p) \/ Foreground(p) \/ init_shell(p)
  \/ ReadLine(p) \/ ReadEOF(p)
  \/ cmd_simple(p) \/ cmd_exit(p)
  \/ cmd_wait(p) \/ cmd_wait_reap(p) \/ cmd_wait_return(p)
  \/ dispatch_fault(p) \/ ForkChild(p) \/ ForkFails(p)
  \/ setpgid(p) \/ set_child_pid(p) \/ sigaction(p) \/ waitpid_reap(p)
  \/ prompt(p)
  \/ excute_arg(p) \/ excute_in(p) \/ excute_out(p)
  \/ excute_fault(p) \/ execv_ok(p) \/ execv_fails(p)
  \/ ProgExit(p)

\* a pending SIGINT is delivered to process p
Deliver(p) ==
  \/ DeliverDefault(p)
  \/ DeliverHandler(p) \/ DeliverHandlerEintrWait(p) \/ DeliverHandlerEintrRead(p)
  \/ DeliverProgDies(p) \/ DeliverProgSurvives(p)

Next == \E p \in Pids : Run(p) \/ Deliver(p) \/ SendSigint(p)

Spec == Init /\ [][Next]_vars

\* the kernel delivers a pending signal, and a process that is runnable
\* again and again (between the signals it takes) executes its next
\* statement: input ends, and a program that was run terminates
FairSpec == Spec /\ \A p \in Pids : SF_vars(Run(p)) /\ WF_vars(Deliver(p))

(***************************************************************************)
(* One external command, for every command line and environment.  The      *)
(* shell has read the line and stands before fork (main line 227); the     *)
(* child then runs excute on it, down to resolve and execv, and main goes  *)
(* to the end of its iteration wherever it does not wait.                  *)
(***************************************************************************)
MaxTokens == 3

\* the tokens of an external command line
TokenAlphabet == {T_ls, T_nx, T_amp, T_gt, T_lt, T_f, T_gtf}
CommandLines == UNION {[1..n -> TokenAlphabet] : n \in 1..MaxTokens}

\* values of PATH: not set, empty, one directory, two directories, and a
\* list with empty segments
PathValues ==
  { NULL, <<>>, <<"/", "a">>, <<"/", "a", ":", "/", "b">>, <<":", "/", "b", ":">> }

\* the files that may exist
FileSets ==
  SUBSET { <<"/", "a", "/", "l", "s">>, <<"/", "b", "/", "l", "s">>,
           <<"/", "b", "/", "n", "x">> }

ExcuteInit ==
  /\ shell_is_interactive = FALSE
  /\ pgid = [p \in Pids |-> IF p = Shell THEN LauncherPgid ELSE 0]
  /\ ttyFg = OtherPgid
  /\ shell_pgid = 0
  /\ st = [p \in Pids |-> IF p = Shell THEN "live" ELSE "unused"]
  /\ image = [p \in Pids |-> "shell"]
  /\ pc = [p \in Pids |-> IF p = Shell THEN "dispatch" ELSE "none"]
  /\ parent = [p \in Pids |-> InitPid]
  /\ status = [p \in Pids |-> "none"]
  /\ fg = [p \in Pids |-> FALSE]
  /\ tokens \in {[p \in Pids |-> IF p = Shell THEN l ELSE <<>>] : l \in CommandLines}
  /\ background = [p \in Pids |-> 0]
  /\ pid = [p \in Pids |-> 0]
  /\ child_pid = [p \in Pids |-> 0]
  /\ reported = [p \in Pids |-> FALSE]
  /\ sigint = [p \in Pids |-> "default"]
  /\ sa_restart = [p \in Pids |-> FALSE]
  /\ sigttou = [p \in Pids |-> "default"]
  /\ pending = [p \in Pids |-> FALSE]
  /\ i = [p \in Pids |-> 0]
  /\ argv = [p \in Pids |-> <<>>]
  /\ redirs = [p \in Pids |-> <<>>]
  /\ fd0 = [p \in Pids |-> TTY]
  /\ fd1 = [p \in Pids |-> TTY]
  /\ linesRead = 1
  /\ envPath \in PathValues
  /\ files \in FileSets

ExcuteNext ==
  \E p \in Pids :
    \/ ForkChild(p) \/ ForkFails(p) \/ prompt(p)
    \/ excute_arg(p) \/ excute_in(p) \/ excute_out(p)
    \/ excute_fault(p) \/ execv_ok(p) \/ execv_fails(p)

ExcuteSpec == ExcuteInit /\ [][ExcuteNext]_vars

(***************************************************************************)
(* The claims.                                                             *)
(***************************************************************************)
\* the positions of main between fork returning in the parent of a
\* foreground command and the child having been waited for
FgWindow == {"setpgid", "set_child_pid", "sigaction", "waitpid"}

\* the shell has a foreground child in flight, which is pid[Shell]
ForegroundInFlight == Live(Shell) /\ pc[Shell] \in FgWindow

\* the last token is a redirection operator with no file name after it
TrailingOperator(toks) ==
  /\ toks # <<>>
  /\ toks[Len(toks)] \in {T_lt, T_gt}
  /\ (Len(toks) = 1 \/ toks[Len(toks) - 1] \notin {T_lt, T_gt})

\* no token is equal to "<" or ">"
NoOperator(toks) == \A k \in 1..Len(toks) : toks[k] \notin {T_lt, T_gt}

\* C1: a forked child whose program replacement fails terminates: no
\* process other than the shell is ever in the read-eval loop of main; a
\* child is in excute, or runs the program it was replaced by.
C1_ChildNeverInLoop ==
  \A p \in Pids \ {Shell} : Live(p) => pc[p] \in {"excute_loop", "running"}

\* C2: a SIGINT delivered to the shell while a foreground child is in
\* flight does not terminate the shell and is passed on to that child
\* (the safety part of the claim: what must hold at the delivery itself).
C2_InterruptRelayed ==
  [][ (ForegroundInFlight /\ pending[Shell] /\ ~pending'[Shell])
        => /\ st'[Shell] = "live"
           /\ Live(pid[Shell]) => pending'[pid[Shell]] ]_vars

\* C3: in an interactive session the terminal's foreground process group
\* is the foreground child's own group while the shell waits for it, and
\* the shell's group whenever the shell is about to read a line.
C3_TerminalOwnership ==
  (shell_is_interactive /\ Live(Shell)) =>
    /\ (pc[Shell] = "waitpid" /\ Live(pid[Shell]))
         => (pgid[pid[Shell]] = pid[Shell] /\ ttyFg = pid[Shell])
    /\ pc[Shell] = "read" => ttyFg = pgid[Shell]

\* C4: whenever the relay handler is installed, or the parent is at
\* waitpid, while a foreground child is in flight, that child is in its
\* own process group (stated for a child that has not yet performed its
\* execv, for which setpgid cannot have been refused).
C4_GroupBeforeRelay ==
  (ForegroundInFlight /\ RunsShell(pid[Shell])
     /\ (sigint[Shell] = "handler" \/ pc[Shell] = "waitpid"))
    => pgid[pid[Shell]] = pid[Shell]

\* C5: a line whose last token is "<" or ">" with no file name after it
\* is rejected before any fork: no process is ever in excute with such a line.
C5_TrailingOperatorRejected ==
  \A p \in Pids : (Live(p) /\ pc[p] = "excute_loop") => ~TrailingOperator(tokens[p])

\* C6: a child in which the open of a redirection target failed never
\* reaches program replacement: no program runs with a failed open behind it.
C6_NoExecAfterOpenFailure ==
  \A p \in Pids : (Live(p) /\ image[p] = "prog")
     => \A k \in 1..Len(redirs[p]) : redirs[p][k].file # NULL => redirs[p][k].ok

\* C7: when cmd_wait has returned, the shell has no child left, running
\* or terminated and not yet waited for.
C7_WaitReturnsAllReaped ==
  (Live(Shell) /\ pc[Shell] = "prompt" /\ fundex(Shell) = 4) => Children(Shell) = {}

\* C8: when the shell reads or dispatches a line, none of its foreground
\* children is still running or not yet waited for.
C8_NoReadWhileForegroundRuns ==
  (Live(Shell) /\ pc[Shell] \in {"read", "dispatch"})
    => \A c \in Children(Shell) : ~fg[c]

\* C9: the parent returns to the prompt, here for a foreground external
\* command (one case of the claim): once the shell has forked a foreground
\* child it eventually reads the next line, every child terminating.
C9_ReturnsToPrompt ==
  ForegroundInFlight ~> (Live(Shell) /\ pc[Shell] = "read")

\* C10: when no token of the line is equal to "<" or ">", the argument
\* vector excute has built at the end of its loop is the token sequence
\* itself and no redirection was performed.
C10_NoOperatorArgvUnchanged ==
  \A p \in Pids : (AfterLoop(p) /\ NoOperator(tokens[p]))
     => (argv[p] = tokens[p] /\ redirs[p] = <<>>)

\* the positions of the tokens that are the operator >
OutputOperators(toks) == {k \in 1..Len(toks) : toks[k] = T_gt}

\* the token sequence without the tokens at positions k and k + 1
WithoutPair(toks, k) == SubSeq(toks, 1, k - 1) \o SubSeq(toks, k + 2, Len(toks))

IsOutput(r) == r.fd = 1

\* C11: when the scan of a token sequence with exactly one > token, followed
\* by a file name token, is over, the argument vector holds all the other
\* tokens in order, and exactly one output redirection, naming that file,
\* has been applied to descriptor 1.
C11_OneOutputRedirection ==
  \A p \in Pids :
    AfterLoop(p) =>
      \A k \in 1..(Len(tokens[p]) - 1) :
        (OutputOperators(tokens[p]) = {k} /\ tokens[p][k + 1] \notin {T_gt, T_lt}) =>
          /\ argv[p] = WithoutPair(tokens[p], k)
          /\ SelectSeq(redirs[p], IsOutput)
               = <<[fd |-> 1, file |-> tokens[p][k + 1], ok |-> TRUE]>>
          /\ fd1[p] = tokens[p][k + 1]

\* the name excute passes to resolve: argv[0] without a '/'
BareName(p) == Argv0(p) # NULL /\ ~HasChar(Argv0(p), "/")

\* the segments of the PATH search list, none when PATH is not set
Segments == IF envPath = NULL THEN <<>> ELSE StrTok(envPath)

\* the segments (by position) under which name exists
Hits(name) == {k \in 1..Len(Segments) : (Segments[k] \o <<"/">> \o name) \in files}

\* C12: for every PATH search list and bare name of which some segment
\* holds a candidate that exists, the call of resolve yields
\* segment + "/" + name for the first such segment in listed order, and
\* nothing else.
C12_FirstExistingCandidate ==
  \A p \in Pids :
    (AfterLoop(p) /\ BareName(p) /\ Hits(Argv0(p)) # {}) =>
      LET first == CHOOSE k \in Hits(Argv0(p)) : \A m \in Hits(Argv0(p)) : k <= m
      IN ResolveOutcomes(Argv0(p), envPath, files)
           = {Segments[first] \o <<"/">> \o Argv0(p)}

\* C13: whenever no PATH segment holds a candidate that exists, PATH not
\* set and PATH empty included, resolve returns NULL (even taking its
\* writes past the candidate buffer as harmless), and does not fault.
C13_NotFoundIsNull ==
  \A p \in Pids :
    (AfterLoop(p) /\ BareName(p) /\ Hits(Argv0(p)) = {}) =>
      resolve(Argv0(p), envPath, files) = NULL

\* C14: when fork fails for an external command, the shell stays alive,
\* goes to the end of the iteration without waiting, leaves the signal
\* dispositions and child_pid alone, and has reported the failure.
C14_ForkFailureReported ==
  [][ \A p \in Pids :
        (Runs(p) /\ pc[p] = "dispatch" /\ pid'[p] = -1) =>
          /\ st'[p] = "live" /\ pc'[p] = "prompt"
          /\ sigint'[p] = sigint[p] /\ sigttou'[p] = sigttou[p]
          /\ child_pid'[p] = child_pid[p]
          /\ reported'[p] ]_vars

\* C15: interactive initialization is left only when the terminal's
\* foreground process group is the shell's process group, and when it
\* completes shell_pgid is the shell's own process id and the terminal's
\* foreground process group is shell_pgid.
C15_InitOwnsTerminal ==
  [][ (shell_is_interactive /\ pc[Shell] = "init_shell" /\ pc'[Shell] = "read") =>
        /\ ttyFg = pgid[Shell]
        /\ shell_pgid' = Shell
        /\ ttyFg' = shell_pgid' ]_vars

\* C16: child_pid is 0 whenever the shell stands at the prompt and has no
\* foreground child: before the first foreground command and after every
\* foreground child that has been waited for.
C16_ChildPidZeroAtPrompt ==
  (Live(Shell) /\ pc[Shell] = "read" /\ \A c \in Children(Shell) : ~fg[c]) =>
    child_pid[Shell] = 0

\* C17: at every prompt, with the children of earlier commands waited for,
\* the shell's SIGINT and SIGTTOU dispositions and its descriptors 0 and 1
\* are what they were before the first command: nothing that a command
\* iteration installed is still in effect.
C17_CleanStateAtPrompt ==
  (Live(Shell) /\ pc[Shell] = "read" /\ Children(Shell) = {}) =>
    /\ sigint[Shell] = "default" /\ sigttou[Shell] = "default"
    /\ fd0[Shell] = TTY /\ fd1[Shell] = TTY

\* C18: when the child goes on to resolve and execv, the whole token
\* sequence has been scanned and every redirection met in it that names a
\* file has been fully applied: the file was opened and is what descriptor
\* 0 or 1 refers to, unless a later redirection of the same descriptor has
\* replaced it.
C18_RedirectionsBeforeExec ==
  [][ \A p \in Pids :
        (RunsShell(p) /\ pc[p] = "excute_loop" /\ pc'[p] \in {"running", "prompt"}) =>
          /\ i[p] >= tokens_get_length(tokens[p])
          /\ \A k \in 1..Len(redirs[p]) : redirs[p][k].file # NULL => redirs[p][k].ok
          /\ \A k \in 1..Len(redirs[p]) :
               (/\ redirs[p][k].file # NULL
                /\ \A m \in (k + 1)..Len(redirs[p]) : redirs[p][m].fd # redirs[p][k].fd) =>
                 (IF redirs[p][k].fd = 0 THEN fd0[p] ELSE fd1[p]) = redirs[p][k].file ]_vars

\* the last token of the line
LastToken(toks) == tokens_get_token(toks, tokens_get_length(toks) - 1)

\* C19: for an external command whose last token is &, the parent goes from
\* fork directly to the end of the iteration and on to the next prompt: it
\* does not wait, and leaves the process group of the child (that of the
\* parent), the terminal's foreground process group, child_pid and the
\* signal dispositions as they were, while the child is alive.
C19_BackgroundFrame ==
  [][ \A p \in Pids :
        /\ (Runs(p) /\ pc[p] = "dispatch" /\ fundex(p) = -1
              /\ LastToken(tokens[p]) = T_amp /\ pc'[p] # "dispatch") =>
             /\ pc'[p] = "prompt"
             /\ child_pid'[p] = child_pid[p]
             /\ sigint'[p] = sigint[p] /\ sigttou'[p] = sigttou[p]
             /\ ttyFg' = ttyFg
             /\ \A c \in Pids :
                  (st[c] = "unused" /\ st'[c] = "live") =>
                    (parent'[c] = p /\ pgid'[c] = pgid[p] /\ ~fg'[c])
        /\ (Runs(p) /\ pc[p] = "prompt" /\ background[p] = 1 /\ pc'[p] # "prompt") =>
             /\ pc'[p] = "read"
             /\ child_pid'[p] = child_pid[p]
             /\ sigint'[p] = sigint[p] /\ sigttou'[p] = sigttou[p]
             /\ ttyFg' = ttyFg /\ pgid' = pgid /\ st' = st ]_vars

\* the shell is at the next prompt while its background child, still in the
\* shell's process group, runs
C19_Witness ==
  /\ Live(Shell) /\ pc[Shell] = "read" /\ linesRead >= 1
  /\ \E c \in Children(Shell) :
       /\ Live(c) /\ ~fg[c] /\ pgid[c] = pgid[Shell]
       /\ Len(tokens[c]) >= 2 /\ LastToken(tokens[c]) = T_amp

\* the k-th token (from 1) is taken by excute as the file name of a
\* redirection: the token before it starts with '<' or '>' and is not
\* itself taken as a file name
RECURSIVE TakenAsFile(_, _)
TakenAsFile(toks, k) ==
  /\ k >= 2
  /\ FirstChar(toks[k - 1]) \in {"<", ">"}
  /\ ~TakenAsFile(toks, k - 1)

\* the k-th token is copied into argv
IsArgument(toks, k) == ~TakenAsFile(toks, k) /\ FirstChar(toks[k]) \notin {"<", ">"}

\* p calls execv in this step (and execv replaces the image or fails)
CallsExecv(p) ==
  RunsShell(p) /\ pc[p] = "excute_loop" /\ pc'[p] \in {"running", "prompt"}

\* C20 as stated: whenever a background command (last token &) gets as far
\* as execv, the argument vector built from its tokens ends with &.
C20_AmpersandLastInArgv ==
  [][ \A p \in Pids :
        (CallsExecv(p) /\ LastToken(tokens[p]) = T_amp) =>
          (argv[p] # <<>> /\ argv[p][Len(argv[p])] = T_amp) ]_vars

\* C20 amended: the same, for the commands in which the & is not taken as
\* the file name of a redirection and is not argv[0]; the program that is
\* run has & as its last argument.
C20_AmpersandLastUnlessFileName ==
  [][ \A p \in Pids :
        (/\ CallsExecv(p) /\ LastToken(tokens[p]) = T_amp
         /\ ~TakenAsFile(tokens[p], Len(tokens[p]))
         /\ \E k \in 1..(Len(tokens[p]) - 1) : IsArgument(tokens[p], k)) =>
          /\ background[p] = 1
          /\ Len(argv[p]) >= 2 /\ argv[p][Len(argv[p])] = T_amp
          /\ image'[p] = "prog" => argv'[p][Len(argv'[p])] = T_amp ]_vars

\* a background command has been run with & as its last argument
C20_Witness ==
  \E p \in Pids :
    /\ Live(p) /\ image[p] = "prog" /\ ~fg[p]
    /\ Len(argv[p]) >= 2 /\ argv[p][Len(argv[p])] = T_amp

=============================================================================
